---------------------------- MODULE Spec2Model ----------------------------
(***************************************************************************)
(* Model of the sdfgen Python bindings (src/python/module.py) over the     *)
(* native sdfgen engine they call through ctypes.                          *)
(*                                                                         *)
(* Four state machines share this module:                                  *)
(*   SpecChild  child-ID allocation through ProtectionDomain.add_child_pd  *)
(*   Spec       one subsystem builder (Serial, I2c, Block, Network, Timer) *)
(*              and add_channel against one SystemDescription              *)
(*   SpecLife   Python object finalisation against native handle lifetime  *)
(*   SpecPd     ProtectionDomain construction and its scheduling parameters *)
(* The engine behind libsdfgen is not among the Python sources; its         *)
(* operations are modelled from its specification and are named Native_*.  *)
(***************************************************************************)
EXTENDS Integers, Sequences, FiniteSets, TLC

VARIABLES
    child_ids,   \* SpecChild: parent -> child table (see Prefilled)
    child_call,  \* SpecChild: the last add_child_pd call and what the caller saw
    earlier,     \* Spec: pd -> channel ends it holds from earlier channels
    channels,    \* Spec: the SystemDescription's channel list
    regions,     \* Spec: the SystemDescription's memory regions
    sys,         \* Spec: the subsystem builder
    written,     \* Spec: the configuration files written
    last,        \* Spec: the last call and what the caller saw
    py,          \* SpecLife: Python object -> "none", "live" or "dead"
    handle,      \* SpecLife: native handle -> "none", "alive" or "destroyed"
    destroys,    \* SpecLife: native handle -> times it was destroyed
    registered,  \* SpecLife: the domains sdfgen_add_pd put in the sdf
    timer_refs,  \* SpecLife: the handles the Timer builder keeps
    life_last,   \* SpecLife: the last call and the handles it used
    pd_obj,      \* SpecPd: the native domain behind ProtectionDomain._obj
    pd_last      \* SpecPd: the last construction and what the caller saw

ChildVars == <<child_ids, child_call>>

TopoVars == <<earlier, channels, regions, sys, written, last>>

LifeVars == <<py, handle, destroys, registered, timer_refs, life_last>>

PdVars == <<pd_obj, pd_last>>

vars == <<ChildVars, TopoVars, LifeVars, PdVars>>

\* Python's None, and the NULL pointer ctypes makes of it.
None == "None"

\* None where the other values are integers (an absent ID).
NoInt == -1

(***************************************************************************)
(* ctypes result conversions (module.py lines 10-116).                     *)
(***************************************************************************)

\* restype = c_uint8: the raw return register read as an unsigned byte; the
\* Python caller always receives an int, never None.
restype_c_uint8(raw) == raw % 256

\* c_uint8(v): construction of an 8-bit unsigned from a Python int.
c_uint8(v) == v % 256

\* restype = c_bool: the raw return byte as a Python bool.
restype_c_bool(raw) == IF raw % 256 # 0 THEN "True" ELSE "False"

(***************************************************************************)
(* Child-ID allocation: ProtectionDomain.add_child_pd                      *)
(***************************************************************************)

\* Highest child ID: the ID travels as a c_uint8.
MaxChildId == 255

ChildIdRange == 0..MaxChildId

Parents == {"pa", "pb"}

Children == {"x", "y"}

\* The bound on the number of add_child_pd calls in one behaviour.
MaxChildCalls == 2

\* The child_id arguments tried (NoInt: the argument is left out, None).
RequestedIds == {NoInt, 0, 1, 255}

\* A parent's child table: IDs 0..held-1 belong to children added before the
\* behaviour starts, ids maps every ID assigned since to its child.
Prefilled(n) == [held |-> n, ids |-> << >>]

\* Initial occupancies of a parent: empty, one ID free, full.
PrefillCounts == {0, MaxChildId, MaxChildId + 1}

TableIds(t) == 0..(t.held - 1) \cup DOMAIN t.ids

TableChild(t, i) == IF i \in DOMAIN t.ids THEN t.ids[i] ELSE "earlier"

UsedIds(p) == TableIds(child_ids[p])

LowestUnused(used, range) ==
    CHOOSE i \in range \ used : \A j \in range \ used : i <= j

\* The engine's allocate(scope, requested): [ok, id, err].
Native_allocate(used, requested, range) ==
    IF requested # NoInt
    THEN IF requested \in used
         THEN [ok |-> FALSE, id |-> NoInt, err |-> "Collision"]
         ELSE [ok |-> TRUE, id |-> requested, err |-> None]
    ELSE IF range \subseteq used
         THEN [ok |-> FALSE, id |-> NoInt, err |-> "Exhausted"]
         ELSE [ok |-> TRUE, id |-> LowestUnused(used, range), err |-> None]

\* sdfgen_pd_add_child(pd, child, id_ptr): id_ptr is NULL (None) or points to
\* the requested byte.
Native_pd_add_child(p, c_child_id) ==
    Native_allocate(UsedIds(p), c_child_id, ChildIdRange)

\* add_child_pd line 215: byref(c_uint8(child_id)) if child_id else None.
\* Python truth: None and 0 are both false.
c_child_id_of(child_id) ==
    IF child_id # NoInt /\ child_id # 0 THEN c_uint8(child_id) ELSE NoInt

\* add_child_pd lines 218-221: raise when the returned id is None.
add_child_pd_outcome(returned_id) ==
    IF returned_id = NoInt THEN "raise" ELSE "return"

\* The byte sdfgen_pd_add_child leaves in its c_uint8 result when it fails.
\* The binding fixes no error value; these stand for the whole byte range
\* (every byte converts to an int, see restype_c_uint8).
ErrorBytes == {0, 1, 255}

\* ProtectionDomain.add_child_pd(self = p, child_pd = c, child_id).
add_child_pd(p, c, child_id) ==
    /\ child_call.n < MaxChildCalls
    /\ LET r == Native_pd_add_child(p, c_child_id_of(child_id))
       IN \E raw \in (IF r.ok THEN {r.id} ELSE ErrorBytes) :
            /\ child_ids' =
                 IF r.ok
                 THEN [child_ids EXCEPT ![p].ids =
                         [i \in DOMAIN @ \cup {r.id} |->
                            IF i = r.id THEN c ELSE @[i]]]
                 ELSE child_ids
            /\ child_call' =
                 [n |-> child_call.n + 1, parent |-> p, child |-> c,
                  child_id |-> child_id, native |-> r.err,
                  outcome |-> add_child_pd_outcome(restype_c_uint8(raw)),
                  value |-> restype_c_uint8(raw),
                  before |-> child_ids[p]]
    /\ UNCHANGED <<TopoVars, LifeVars, PdVars>>

NoChildCall ==
    [n |-> 0, parent |-> None, child |-> None, child_id |-> NoInt,
     native |-> None, outcome |-> None, value |-> NoInt, before |-> Prefilled(0)]

(***************************************************************************)
(* The SystemDescription: channels, channel slots, memory regions          *)
(***************************************************************************)

\* Highest channel-slot ID of a protection domain (spec.md 4.2: 0-255).
MaxSlotId == 255

SlotRange == 0..MaxSlotId

PDs == {"driver", "virt", "virt_rx", "c1", "c2", "cp1", "cp2"}

Clients == {"c1", "c2"}

Copiers == {"cp1", "cp2"}

\* The channel ends of pd in a channel list, as <<index, side>>.
Ends(chs, pd) ==
    {<<i, "a">> : i \in {j \in DOMAIN chs : chs[j].a = pd}}
        \cup {<<i, "b">> : i \in {j \in DOMAIN chs : chs[j].b = pd}}

EndId(chs, e) == IF e[2] = "a" THEN chs[e[1]].id_a ELSE chs[e[1]].id_b

\* The slot IDs pd holds: those of its earlier channels (0..n-1) and those of
\* its ends in the channel list.
SlotIds(held, chs, pd) ==
    0..(held[pd] - 1) \cup {EndId(chs, e) : e \in Ends(chs, pd)}

\* Topology Model add_channel(a, b): one slot on each side, a first.
Native_add_channel(held, chs, a, b) ==
    LET ra == Native_allocate(SlotIds(held, chs, a), NoInt, SlotRange)
        used_b == IF a = b /\ ra.ok
                  THEN SlotIds(held, chs, b) \cup {ra.id}
                  ELSE SlotIds(held, chs, b)
        rb == Native_allocate(used_b, NoInt, SlotRange)
    IN IF ra.ok /\ rb.ok
       THEN [ok |-> TRUE,
             channels |-> Append(chs, [a |-> a, b |-> b,
                                       id_a |-> ra.id, id_b |-> rb.id])]
       ELSE [ok |-> FALSE, channels |-> chs]

\* sdfgen_to_xml: the text artifact, a function of the current topology.
Native_to_xml(held, chs, regs) ==
    [earlier |-> held,
     channels |-> [i \in DOMAIN chs |-> <<chs[i].a, chs[i].b>>],
     regions |-> regs]

(***************************************************************************)
(* Subsystem builders: Sddf.Serial, I2c, Block, Network, Timer             *)
(***************************************************************************)

Kinds == {"serial", "i2c", "block", "net", "timer"}

\* The bound on the clients a builder accepts in one behaviour.
MaxClients == 2

\* The bound on the add_channel calls of one behaviour.
MaxAddChannel == 1

\* The engine's builder record, as the sdfgen_sddf_* constructors make it.
Native_sddf(kind, device, driver, virt, virt_rx) ==
    [kind |-> kind, device |-> device, driver |-> driver, virt |-> virt,
     virt_rx |-> virt_rx, clients |-> << >>, connected |-> FALSE]

\* device._obj, or None for an absent device.
device_obj(device) == IF device = None THEN None ELSE device

\* Sddf.Serial.__init__(sdf, device, driver, virt_tx, virt_rx)
Serial(device, driver, virt_tx, virt_rx) ==
    Native_sddf("serial", device_obj(device), driver, virt_tx,
                IF virt_rx = None THEN None ELSE virt_rx)

\* Mutant of I2c: driver and virt handed to the engine in the wrong order.
I2c_swapped(device, driver, virt) ==
    Native_sddf("i2c", device_obj(device), virt, driver, None)

\* Sddf.I2c.__init__(sdf, device, driver, virt)
I2c(device, driver, virt) ==
    Native_sddf("i2c", device_obj(device), driver, virt, None)

\* Sddf.Block.__init__(sdf, device, driver, virt)
Block(device, driver, virt) ==
    Native_sddf("block", device_obj(device), driver, virt, None)

\* Sddf.Network.__init__(sdf, device, driver, virt_tx, virt_rx)
Network(device, driver, virt_tx, virt_rx) ==
    Native_sddf("net", device_obj(device), driver, virt_tx, virt_rx)

\* Sddf.Timer.__init__(sdf, device, driver)
Timer(device, driver) ==
    Native_sddf("timer", device_obj(device), driver, None, None)

ClientEntry(client, copier, mac) ==
    [client |-> client, copier |-> copier, mac |-> mac]

ClientsOf(b) == {b.clients[i].client : i \in DOMAIN b.clients}

CopiersOf(b) == {b.clients[i].copier : i \in DOMAIN b.clients}

MacsOf(b) == {b.clients[i].mac : i \in DOMAIN b.clients} \ {None}

\* sdfgen_sddf_{serial,i2c,block,timer}_add_client: rejected once the
\* builder is Connected, appended otherwise.
Native_add_client(b, client) ==
    IF b.connected
    THEN [ok |-> FALSE, sys |-> b]
    ELSE [ok |-> TRUE,
          sys |-> [b EXCEPT !.clients =
                     Append(@, ClientEntry(client, None, None))]]

HexDigits ==
    {"0", "1", "2", "3", "4", "5", "6", "7", "8", "9",
     "a", "b", "c", "d", "e", "f", "A", "B", "C", "D", "E", "F"}

\* The length of a MAC address in text, "xx:xx:xx:xx:xx:xx".
MacAddrLen == 17

\* The engine's reading of a MAC address text: six two-digit hexadecimal
\* groups, a colon after each group but the last.
WellFormedMac(text) ==
    /\ Len(text) = MacAddrLen
    /\ \A i \in 1..MacAddrLen :
         IF i % 3 = 0 THEN SubSeq(text, i, i) = ":"
         ELSE SubSeq(text, i, i) \in HexDigits

\* sdfgen_sddf_net_add_client_with_copier: 0 added, 1 duplicate MAC address,
\* 2 duplicate client, 3 duplicate copier, 4 any other refusal (Connected,
\* or a MAC address text that does not parse).
Native_net_add_client_with_copier(b, client, copier, c_mac_addr) ==
    IF b.connected THEN [code |-> 4, sys |-> b]
    ELSE IF c_mac_addr # None /\ ~WellFormedMac(c_mac_addr)
    THEN [code |-> 4, sys |-> b]
    ELSE IF c_mac_addr # None /\ c_mac_addr \in MacsOf(b)
    THEN [code |-> 1, sys |-> b]
    ELSE IF client \in ClientsOf(b) THEN [code |-> 2, sys |-> b]
    ELSE IF copier \in CopiersOf(b) THEN [code |-> 3, sys |-> b]
    ELSE [code |-> 0,
          sys |-> [b EXCEPT !.clients =
                     Append(@, ClientEntry(client, copier, c_mac_addr))]]

\* The channels connect() makes for one client, in order (spec.md 4.4).
ClientPlan(b, e) ==
    CASE b.kind = "serial" ->
           <<<<e.client, b.virt>>>>
               \o (IF b.virt_rx = None THEN << >>
                   ELSE <<<<e.client, b.virt_rx>>>>)
      [] b.kind \in {"i2c", "block"} -> <<<<e.client, b.virt>>>>
      [] b.kind = "net" ->
           <<<<e.copier, b.virt_rx>>, <<e.client, e.copier>>,
             <<e.client, b.virt>>>>
      [] b.kind = "timer" -> <<<<b.driver, e.client>>>>

RECURSIVE ClientsPlan(_, _)
ClientsPlan(b, i) ==
    IF i > Len(b.clients) THEN << >>
    ELSE ClientPlan(b, b.clients[i]) \o ClientsPlan(b, i + 1)

\* The channels connect() makes for the driver and its virtualizers.
DriverPlan(b) ==
    CASE b.kind = "serial" ->
           <<<<b.driver, b.virt>>>>
               \o (IF b.virt_rx = None THEN << >>
                   ELSE <<<<b.driver, b.virt_rx>>>>)
      [] b.kind \in {"i2c", "block"} -> <<<<b.driver, b.virt>>>>
      [] b.kind = "net" -> <<<<b.driver, b.virt_rx>>, <<b.driver, b.virt>>>>
      [] b.kind = "timer" -> << >>

ConnectPlan(b) == DriverPlan(b) \o ClientsPlan(b, 1)

\* The memory regions connect() makes: the device's registers when there is
\* a device node, a queue and data region per Block client.
ConnectRegions(b) ==
    (IF b.device = None THEN << >>
     ELSE <<[pd |-> b.driver, what |-> "device"]>>)
        \o (IF b.kind # "block" THEN << >>
            ELSE [i \in 1..(2 * Len(b.clients)) |->
                    [pd |-> b.clients[(i + 1) \div 2].client,
                     what |-> IF i % 2 = 1 THEN "queue" ELSE "data"]])

\* The plan's channels added one after the other, up to the first failure.
RECURSIVE AddAll(_, _, _)
AddAll(held, chs, plan) ==
    IF plan = << >> THEN [ok |-> TRUE, channels |-> chs]
    ELSE LET r == Native_add_channel(held, chs, plan[1][1], plan[1][2])
         IN IF r.ok THEN AddAll(held, r.channels, Tail(plan)) ELSE r

\* What a connect that fails part-way leaves in the SystemDescription.
Native_connect_failed(chs, regs, partial) == [channels |-> chs, regions |-> regs]

\* sdfgen_sddf_*_connect: refused on a Connected builder; otherwise all of the
\* builder's channels and regions are added, or when one cannot be, none.
Native_connect(b, held, chs, regs) ==
    IF b.connected
    THEN [raw |-> 0, channels |-> chs, regions |-> regs, sys |-> b]
    ELSE LET r == AddAll(held, chs, ConnectPlan(b))
         IN IF r.ok
            THEN [raw |-> 1, channels |-> r.channels,
                  regions |-> regs \o ConnectRegions(b),
                  sys |-> [b EXCEPT !.connected = TRUE]]
            ELSE LET f == Native_connect_failed(chs, regs, r.channels)
                 IN [raw |-> 0, channels |-> f.channels,
                     regions |-> f.regions, sys |-> b]

\* Destinations given to serialise_config, and the ones that can be written.
Outputs == {"out/config.data", "/nonexistent/config.data"}

Writable == {"out/config.data"}

\* sdfgen_sddf_*_serialise_config: only for a Connected builder, and then
\* the result tells whether the destination could be written.
Native_serialise_config(b, c_output) ==
    IF b.connected /\ c_output \in Writable THEN 1 ELSE 0

(***************************************************************************)
(* The Python entry points (one action per call)                           *)
(***************************************************************************)

\* What the claims compare a call's effect with: the state before it.
Snapshot ==
    [channels |-> channels, regions |-> regions, clients |-> sys.clients,
     connected |-> sys.connected, written |-> written]

Call(op, args, outcome, value) ==
    [op |-> op, args |-> args, outcome |-> outcome, value |-> value,
     n_add_channel |-> last.n_add_channel, before |-> Snapshot]

\* Serial/I2c/Block/Timer.add_client(client): the engine's result is not
\* read (restype None for serial and timer, an unread c_void_p for i2c and
\* block); the call returns None.
add_client_result(native_ok) == [outcome |-> "return", value |-> "None"]

add_client(client) ==
    /\ sys.kind \in {"serial", "i2c", "block", "timer"}
    /\ sys.connected \/ Len(sys.clients) < MaxClients
    /\ LET r == Native_add_client(sys, client)
           res == add_client_result(r.ok)
       IN /\ sys' = r.sys
          /\ last' = Call("add_client", <<client>>, res.outcome, res.value)
    /\ UNCHANGED <<earlier, channels, regions, written>>
    /\ UNCHANGED <<ChildVars, LifeVars, PdVars>>

\* MAC address arguments tried: none, a well-formed one, a short one, and
\* one of the right length whose last group is not hexadecimal.
MacAddrs == {None, "52:54:01:00:00:01", "52:54:01", "52:54:01:00:00:zz"}

\* A Python bool compared with an int (ret == 0, ret == 1, ...).
bool_as_int(ret) == IF ret = "True" THEN 1 ELSE 0

\* add_client_with_copier lines 420-429: the branch taken for ret.
net_add_client_result(ret) ==
    CASE ret = 0 -> [outcome |-> "return", value |-> "None"]
      [] ret = 1 -> [outcome |-> "raise", value |-> "duplicate MAC address"]
      [] ret = 2 -> [outcome |-> "raise", value |-> "duplicate client"]
      [] ret = 3 -> [outcome |-> "raise", value |-> "duplicate copier"]
      [] OTHER -> [outcome |-> "raise", value |-> "internal error"]

\* Network.add_client_with_copier(client, copier, mac_addr=...)
add_client_with_copier(client, copier, mac_addr) ==
    /\ sys.kind = "net"
    /\ sys.connected \/ Len(sys.clients) < MaxClients
    /\ IF mac_addr # None /\ Len(mac_addr) # MacAddrLen
       THEN /\ sys' = sys
            /\ last' = Call("add_client_with_copier",
                            <<client, copier, mac_addr>>,
                            "raise", "invalid MAC address length")
       ELSE LET r == Native_net_add_client_with_copier(
                         sys, client, copier, mac_addr)
                ret == restype_c_bool(r.code)
                res == net_add_client_result(bool_as_int(ret))
            IN /\ sys' = r.sys
               /\ last' = [Call("add_client_with_copier",
                                <<client, copier, mac_addr>>,
                                res.outcome, res.value)
                             EXCEPT !.args = Append(@, r.code)]
    /\ UNCHANGED <<earlier, channels, regions, written>>
    /\ UNCHANGED <<ChildVars, LifeVars, PdVars>>

\* Serial.connect() line 317: the engine's bool, returned.
Serial_connect(raw) == restype_c_bool(raw)

\* I2c.connect() line 347
I2c_connect(raw) == restype_c_bool(raw)

\* Mutant of Block.connect: the engine's result dropped, True returned.
Block_connect_unchecked(raw) == "True"

\* Block.connect() line 373
Block_connect(raw) == restype_c_bool(raw)

\* Network.connect() line 432
Network_connect(raw) == restype_c_bool(raw)

\* Mutant of Timer.connect: the result read as "failed" when it is non-zero.
Timer_connect_inverted(raw) == IF raw = 0 THEN "True" ELSE "False"

\* Timer.connect() line 461
Timer_connect(raw) == restype_c_bool(raw)

connect_result(kind, raw) ==
    CASE kind = "serial" -> Serial_connect(raw)
      [] kind = "i2c" -> I2c_connect(raw)
      [] kind = "block" -> Block_connect(raw)
      [] kind = "net" -> Network_connect(raw)
      [] kind = "timer" -> Timer_connect(raw)

connect ==
    /\ LET r == Native_connect(sys, earlier, channels, regions)
       IN /\ channels' = r.channels
          /\ regions' = r.regions
          /\ sys' = r.sys
          /\ last' = Call("connect", << >>, "return",
                          connect_result(sys.kind, r.raw))
    /\ UNCHANGED <<earlier, written>>
    /\ UNCHANGED <<ChildVars, LifeVars, PdVars>>

\* Serial.serialise_config(output) lines 319-321: the engine's bool, returned.
Serial_serialise_config(raw) == restype_c_bool(raw)

\* Network.serialise_config(output) lines 434-436
Network_serialise_config(raw) == restype_c_bool(raw)

\* Mutant of Timer.serialise_config: reports success whenever it was given
\* a destination, whatever the engine returned.
Timer_serialise_config_unchecked(raw) == "True"

\* Timer.serialise_config(output) lines 463-465
Timer_serialise_config(raw) == restype_c_bool(raw)

serialise_config_result(kind, raw) ==
    CASE kind = "serial" -> Serial_serialise_config(raw)
      [] kind = "net" -> Network_serialise_config(raw)
      [] kind = "timer" -> Timer_serialise_config(raw)

serialise_config(output) ==
    /\ sys.kind \in {"serial", "net", "timer"}
    /\ LET raw == Native_serialise_config(sys, output)
       IN /\ written' = IF raw = 1 THEN written \cup {output} ELSE written
          /\ last' = Call("serialise_config", <<output>>, "return",
                          serialise_config_result(sys.kind, raw))
    /\ UNCHANGED <<earlier, channels, regions, sys>>
    /\ UNCHANGED <<ChildVars, LifeVars, PdVars>>

\* Mutant of Channel.__init__: a's handle passed for both ends.
Channel_same_end(a, b) == <<a, a>>

\* Channel.__init__(a, b): sdfgen_channel_create(a._obj, b._obj).
Channel(a, b) == <<a, b>>

\* The pairs of domains add_channel is tried with.
ChannelPairs == {<<"c1", "c2">>, <<"c1", "c1">>}

\* sdf.add_channel(Channel(a, b)) (test.py line 86).
add_channel(a, b) ==
    /\ last.n_add_channel < MaxAddChannel
    /\ LET ch == Channel(a, b)
           r == Native_add_channel(earlier, channels, ch[1], ch[2])
       IN /\ channels' = r.channels
          /\ last' = [Call("add_channel", <<a, b>>,
                           IF r.ok THEN "return" ELSE "raise",
                           IF r.ok THEN "None" ELSE "SlotExhausted")
                        EXCEPT !.n_add_channel = @ + 1]
    /\ UNCHANGED <<earlier, regions, sys, written>>
    /\ UNCHANGED <<ChildVars, LifeVars, PdVars>>

\* What SystemDescription.xml() returns: sdfgen_to_xml(...).decode("utf-8").
xml_result == Native_to_xml(earlier, channels, regions)

\* SystemDescription.xml()
xml ==
    /\ last' = Call("xml", << >>, "return", "xml")
    /\ UNCHANGED <<earlier, channels, regions, sys, written>>
    /\ UNCHANGED <<ChildVars, LifeVars, PdVars>>

(***************************************************************************)
(* Object lifetime: Python finalisation (__del__) and native handles       *)
(***************************************************************************)

\* One SystemDescription, two ProtectionDomains, a DeviceTree, a Node looked
\* up in it, a Timer builder.
Objs == {"sdf", "pd_a", "pd_b", "dtb", "node", "timer"}

LifePDs == {"pd_a", "pd_b"}

\* The classes that define __del__ (DeviceTree.Node does not).
HasDel == Objs \ {"node"}

\* A handle that can be used: not destroyed, and for a Node, which points
\* into the parsed tree, the DeviceTree not destroyed either.
Valid(h) ==
    /\ handle[h] = "alive"
    /\ h = "node" => handle["dtb"] = "alive"

\* The last call, the handles the engine read in it, and those of them that
\* had been destroyed.
Used(op, hs) == [op |-> op, used |-> hs, dangling |-> {h \in hs : ~Valid(h)}]

NoTimerRefs ==
    [sdf |-> None, device |-> None, driver |-> None, clients |-> {},
     connected |-> FALSE]

\* The constructors: SystemDescription(arch, paddr_top),
\* ProtectionDomain(name, program_image), DeviceTree(data).
New(o) ==
    /\ o \in {"sdf", "dtb"} \cup LifePDs
    /\ py[o] = "none"
    /\ py' = [py EXCEPT ![o] = "live"]
    /\ handle' = [handle EXCEPT ![o] = "alive"]
    /\ life_last' = Used("new", {})
    /\ UNCHANGED <<destroys, registered, timer_refs>>
    /\ UNCHANGED <<ChildVars, TopoVars, PdVars>>

\* DeviceTree.node(name): DeviceTree.Node(self, name) keeps the node pointer
\* and no reference to the DeviceTree.
DeviceTree_node ==
    /\ py["dtb"] = "live" /\ py["node"] = "none"
    /\ py' = [py EXCEPT !["node"] = "live"]
    /\ handle' = [handle EXCEPT !["node"] = "alive"]
    /\ life_last' = Used("node", {"dtb"})
    /\ UNCHANGED <<destroys, registered, timer_refs>>
    /\ UNCHANGED <<ChildVars, TopoVars, PdVars>>

\* SystemDescription.add_pd(pd): the engine keeps pd's handle; the Python
\* SystemDescription keeps no reference to pd.
add_pd(p) ==
    /\ py["sdf"] = "live" /\ py[p] = "live" /\ p \notin registered
    /\ registered' = registered \cup {p}
    /\ life_last' = Used("add_pd", {"sdf", p})
    /\ UNCHANGED <<py, handle, destroys, timer_refs>>
    /\ UNCHANGED <<ChildVars, TopoVars, PdVars>>

\* Sddf.Timer(sdf, device, driver): only the handles are passed on.
New_Timer(device, driver) ==
    /\ py["timer"] = "none" /\ py["sdf"] = "live" /\ py[driver] = "live"
    /\ device # None => py[device] = "live"
    /\ py' = [py EXCEPT !["timer"] = "live"]
    /\ handle' = [handle EXCEPT !["timer"] = "alive"]
    /\ timer_refs' = [NoTimerRefs EXCEPT !.sdf = "sdf",
                                         !.device = device_obj(device),
                                         !.driver = driver]
    /\ life_last' = Used("Timer", {"sdf", driver} \cup ({device} \ {None}))
    /\ UNCHANGED <<destroys, registered>>
    /\ UNCHANGED <<ChildVars, TopoVars, PdVars>>

\* Timer.add_client(client)
Timer_add_client(p) ==
    /\ py["timer"] = "live" /\ py[p] = "live"
    /\ p \notin timer_refs.clients /\ ~timer_refs.connected
    /\ timer_refs' = [timer_refs EXCEPT !.clients = @ \cup {p}]
    /\ life_last' = Used("add_client", {"timer", p})
    /\ UNCHANGED <<py, handle, destroys, registered>>
    /\ UNCHANGED <<ChildVars, TopoVars, PdVars>>

\* Timer.connect(): the engine reads the builder and what it points to.
Timer_connect_life ==
    /\ py["timer"] = "live" /\ ~timer_refs.connected
    /\ timer_refs' = [timer_refs EXCEPT !.connected = TRUE]
    /\ life_last' = Used("connect",
                         ({"timer", timer_refs.sdf, timer_refs.driver,
                           timer_refs.device} \ {None})
                             \cup timer_refs.clients)
    /\ UNCHANGED <<py, handle, destroys, registered>>
    /\ UNCHANGED <<ChildVars, TopoVars, PdVars>>

\* SystemDescription.xml(): the engine renders every registered domain.
xml_life ==
    /\ py["sdf"] = "live"
    /\ life_last' = Used("xml", {"sdf"} \cup registered)
    /\ UNCHANGED <<py, handle, destroys, registered, timer_refs>>
    /\ UNCHANGED <<ChildVars, TopoVars, PdVars>>

\* The caller drops its reference to o and Python finalises the object:
\* __del__ hands the handle to sdfgen_*_destroy. No Python object of these
\* classes refers to another, so the caller's reference is the only one.
del(o) ==
    /\ py[o] = "live"
    /\ py' = [py EXCEPT ![o] = "dead"]
    /\ handle' = IF o \in HasDel THEN [handle EXCEPT ![o] = "destroyed"]
                 ELSE handle
    /\ destroys' = IF o \in HasDel THEN [destroys EXCEPT ![o] = @ + 1]
                   ELSE destroys
    /\ life_last' = Used("del", IF o \in HasDel THEN {o} ELSE {})
    /\ UNCHANGED <<registered, timer_refs>>
    /\ UNCHANGED <<ChildVars, TopoVars, PdVars>>

LifeIdle ==
    /\ py = [o \in Objs |-> "none"]
    /\ handle = [o \in Objs |-> "none"]
    /\ destroys = [o \in Objs |-> 0]
    /\ registered = {}
    /\ timer_refs = NoTimerRefs
    /\ life_last = [op |-> None, used |-> {}, dangling |-> {}]

(***************************************************************************)
(* ProtectionDomain construction (module.py lines 193-212)                 *)
(*                                                                         *)
(* An optional argument is a sequence: << >> for None, <<v>> for the value *)
(* v. A stack size, which may exceed one machine word of the checker, is   *)
(* held as three digits of base 2^16, least significant first:            *)
(* <<d0, d1, d2>> stands for d0 + d1 * 2^16 + d2 * 2^32.                   *)
(***************************************************************************)

\* The base of the digits of a stack size: c_uint32 is two such digits.
Digit == 65536

\* argtypes c_uint8 as it would be with a range check: out-of-range values
\* clamped to the nearest bound.
argtype_c_uint8_saturating(v) == IF v > 255 THEN 255 ELSE IF v < 0 THEN 0 ELSE v

\* argtypes = [c_void_p, c_uint8]: a Python int handed to the native call as
\* an unsigned byte; ctypes keeps the low 8 bits and checks no range.
argtype_c_uint8(v) == v % 256

\* argtypes = [c_void_p, c_uint32]: the low 32 bits, the two low digits.
argtype_c_uint32(d) == <<d[1], d[2], 0>>

\* "x is not None"
is_not_None(arg) == arg # << >>

\* sdfgen_pd_create: a domain with no scheduling parameter set.
Native_pd_create ==
    [created |-> TRUE, priority |-> << >>, budget |-> << >>,
     period |-> << >>, stack_size |-> << >>]

\* sdfgen_pd_set_priority, _budget, _period, _stack_size: the field takes
\* the value the call received.
Native_pd_set(pd, field, received) == [pd EXCEPT ![field] = <<received>>]

\* priority, budget and period arguments tried: none, zero, the priority of
\* the example script, the largest byte, and values outside one byte.
ByteArgs == {<< >>, <<0>>, <<200>>, <<255>>, <<256>>, <<300>>, <<-1>>}

\* stack_size arguments tried: none, 0, 4096, 2^32 - 1, 2^32, 2^32 + 4096.
StackArgs ==
    {<< >>, <<<<0, 0, 0>>>>, <<<<4096, 0, 0>>>>,
     <<<<Digit - 1, Digit - 1, 0>>>>, <<<<0, 0, 1>>>>, <<<<4096, 0, 1>>>>}

NoPd ==
    [created |-> FALSE, priority |-> << >>, budget |-> << >>,
     period |-> << >>, stack_size |-> << >>]

NoPdCall ==
    [outcome |-> None,
     args |-> [priority |-> << >>, budget |-> << >>,
               period |-> << >>, stack_size |-> << >>]]

\* ProtectionDomain(name, program_image, priority, budget, period, stack_size)
ProtectionDomain(priority, budget, period, stack_size) ==
    /\ ~pd_obj.created
    /\ LET o0 == Native_pd_create
           o1 == IF is_not_None(priority)
                 THEN Native_pd_set(o0, "priority",
                                    argtype_c_uint8(priority[1]))
                 ELSE o0
           o2 == IF is_not_None(budget)
                 THEN Native_pd_set(o1, "budget", argtype_c_uint8(budget[1]))
                 ELSE o1
           o3 == IF is_not_None(period)
                 THEN Native_pd_set(o2, "period", argtype_c_uint8(period[1]))
                 ELSE o2
           o4 == IF is_not_None(stack_size)
                 THEN Native_pd_set(o3, "stack_size",
                                    argtype_c_uint32(stack_size[1]))
                 ELSE o3
       IN /\ pd_obj' = o4
          /\ pd_last' = [outcome |-> "return",
                         args |-> [priority |-> priority, budget |-> budget,
                                   period |-> period,
                                   stack_size |-> stack_size]]
    /\ UNCHANGED <<ChildVars, TopoVars, LifeVars>>

PdIdle ==
    /\ pd_obj = NoPd
    /\ pd_last = NoPdCall

(***************************************************************************)
(* Specifications                                                          *)
(***************************************************************************)

\* The builders a behaviour may start with: every class, Serial with and
\* without an RX virtualizer, I2c with and without a device node.
Builders ==
    {Serial("node", "driver", "virt", "virt_rx"),
     Serial(None, "driver", "virt", None),
     I2c(None, "driver", "virt"),
     I2c("node", "driver", "virt"),
     Block("node", "driver", "virt"),
     Network("node", "driver", "virt", "virt_rx"),
     Timer("node", "driver")}

\* Channel ends held from earlier channels: a fresh system, virt with one
\* slot left, c2 with none.
EarlierChoices ==
    {[pd \in PDs |-> 0],
     [pd \in PDs |-> IF pd = "virt" THEN MaxSlotId ELSE 0],
     [pd \in PDs |-> IF pd = "c2" THEN MaxSlotId + 1 ELSE 0]}

NoCall ==
    [op |-> None, args |-> << >>, outcome |-> None, value |-> None,
     n_add_channel |-> 0,
     before |-> [channels |-> << >>, regions |-> << >>, clients |-> << >>,
                 connected |-> FALSE, written |-> {}]]

TopoIdle ==
    /\ earlier = [pd \in PDs |-> 0]
    /\ channels = << >>
    /\ regions = << >>
    /\ sys = Timer(None, "driver")
    /\ written = {}
    /\ last = NoCall

ChildIdle ==
    /\ child_ids = [p \in Parents |-> Prefilled(0)]
    /\ child_call = NoChildCall

Init ==
    /\ earlier \in EarlierChoices
    /\ channels = << >>
    /\ regions = << >>
    /\ sys \in Builders
    /\ written = {}
    /\ last = NoCall
    /\ ChildIdle
    /\ LifeIdle
    /\ PdIdle

Next ==
    \/ \E client \in Clients : add_client(client)
    \/ \E client \in Clients, copier \in Copiers, mac_addr \in MacAddrs :
         add_client_with_copier(client, copier, mac_addr)
    \/ connect
    \/ \E output \in Outputs : serialise_config(output)
    \/ \E pair \in ChannelPairs : add_channel(pair[1], pair[2])
    \/ xml

Spec == Init /\ [][Next]_vars

InitChild ==
    /\ child_ids \in [Parents -> {Prefilled(n) : n \in PrefillCounts}]
    /\ child_call = NoChildCall
    /\ TopoIdle
    /\ LifeIdle
    /\ PdIdle

NextChild ==
    \E p \in Parents, c \in Children, child_id \in RequestedIds :
        add_child_pd(p, c, child_id)

SpecChild == InitChild /\ [][NextChild]_vars

InitLife == LifeIdle /\ ChildIdle /\ TopoIdle /\ PdIdle

NextLife ==
    \/ \E o \in Objs : New(o)
    \/ DeviceTree_node
    \/ \E p \in LifePDs : add_pd(p)
    \/ \E device \in {None, "node"}, driver \in LifePDs :
         New_Timer(device, driver)
    \/ \E p \in LifePDs : Timer_add_client(p)
    \/ Timer_connect_life
    \/ xml_life
    \/ \E o \in Objs : del(o)

SpecLife == InitLife /\ [][NextLife]_vars

InitPd == PdIdle /\ ChildIdle /\ TopoIdle /\ LifeIdle

NextPd ==
    \E priority \in ByteArgs, budget \in ByteArgs, period \in ByteArgs,
       stack_size \in StackArgs :
        ProtectionDomain(priority, budget, period, stack_size)

SpecPd == InitPd /\ [][NextPd]_vars

(***************************************************************************)
(* Claims on child-ID allocation (checked under SpecChild)                 *)
(***************************************************************************)

ChildCallMade == child_call.n > 0

ChildIdsUnchanged == child_ids[child_call.parent] = child_call.before

\* C3: add_child_pd called with a requested child ID (any of 0..255, 0
\* included) that is already taken under the parent fails (raises) and leaves
\* the parent's child-ID assignments as they were; the requested ID is never
\* replaced by an automatically chosen one.
C3_TakenRequestRaises ==
    (/\ ChildCallMade
     /\ child_call.child_id # NoInt
     /\ child_call.child_id \in TableIds(child_call.before))
    => (child_call.outcome = "raise" /\ ChildIdsUnchanged)

\* C4: add_child_pd called without a requested ID returns the lowest child ID
\* of 0..255 unused under the parent and assigns it to the child; when all 256
\* are taken it raises and reassigns nothing.
C4_AbsentRequestLowestOrRaises ==
    (ChildCallMade /\ child_call.child_id = NoInt)
    => IF ChildIdRange \subseteq TableIds(child_call.before)
       THEN child_call.outcome = "raise" /\ ChildIdsUnchanged
       ELSE LET id == LowestUnused(TableIds(child_call.before), ChildIdRange)
                now == child_ids[child_call.parent]
            IN /\ child_call.outcome = "return"
               /\ child_call.value = id
               /\ TableIds(now) = TableIds(child_call.before) \cup {id}
               /\ TableChild(now, id) = child_call.child
               /\ \A i \in TableIds(child_call.before) :
                     TableChild(now, i) = TableChild(child_call.before, i)

(***************************************************************************)
(* Claims on the subsystem builders and channels (checked under Spec)      *)
(***************************************************************************)

Did(op) == last.op = op

TopologyUnchanged ==
    channels = last.before.channels /\ regions = last.before.regions

\* The number of channel ends a plan needs on pd.
RECURSIVE EndsNeeded(_, _)
EndsNeeded(plan, pd) ==
    IF plan = << >> THEN 0
    ELSE (IF plan[1][1] = pd THEN 1 ELSE 0) + (IF plan[1][2] = pd THEN 1 ELSE 0)
             + EndsNeeded(Tail(plan), pd)

\* Every domain has a free slot for each channel end the plan puts on it.
SlotsSuffice(chs, plan) ==
    \A pd \in PDs :
        Cardinality(SlotIds(earlier, chs, pd)) + EndsNeeded(plan, pd)
            <= MaxSlotId + 1

\* The channels of a list from position n + 1 on, as unordered pairs.
PairsAfter(chs, n) == [i \in 1..(Len(chs) - n) |-> {chs[n + i].a, chs[n + i].b}]

PlanPairs(plan) == [i \in DOMAIN plan |-> {plan[i][1], plan[i][2]}]

C2_DuplicateKindsDistinguished ==
    (/\ Did("add_client_with_copier")
     /\ ~last.before.connected
     /\ (last.args[3] = None \/ WellFormedMac(last.args[3])))
    => LET client == last.args[1]
           copier == last.args[2]
           mac == last.args[3]
           b == [sys EXCEPT !.clients = last.before.clients]
           dupMac == mac # None /\ mac \in MacsOf(b)
           dupClient == client \in ClientsOf(b)
           dupCopier == copier \in CopiersOf(b)
           raised(msg) == /\ last.outcome = "raise"
                          /\ last.value = msg
                          /\ sys.clients = last.before.clients
       IN /\ (dupMac /\ ~dupClient /\ ~dupCopier)
               => raised("duplicate MAC address")
          /\ (dupClient /\ ~dupMac /\ ~dupCopier)
               => raised("duplicate client")
          /\ (dupCopier /\ ~dupMac /\ ~dupClient)
               => raised("duplicate copier")

C5_WitnessSelf ==
    /\ Did("add_channel") /\ last.outcome = "return"
    /\ last.args = <<"c1", "c1">>
    /\ Cardinality(Ends(channels, "c1")) >= 3

C6_Witness ==
    /\ Did("serialise_config") /\ last.value = "True"
    /\ last.args[1] \in last.before.written
    /\ channels # << >>

C8_ConnectAllOrNothing ==
    (Did("connect") /\ ~last.before.connected) =>
        IF last.value = "True"
        THEN /\ PairsAfter(channels, Len(last.before.channels))
                  = PlanPairs(ConnectPlan(sys))
             /\ SubSeq(channels, 1, Len(last.before.channels))
                  = last.before.channels
             /\ regions = last.before.regions \o ConnectRegions(sys)
        ELSE TopologyUnchanged /\ ~sys.connected

\* A connect() that fails on a later channel of its plan: the plan's first
\* channel could be added.
C8_Witness ==
    /\ Did("connect") /\ ~last.before.connected /\ last.value = "False"
    /\ Len(ConnectPlan(sys)) >= 2
    /\ Native_add_channel(earlier, channels, ConnectPlan(sys)[1][1],
                          ConnectPlan(sys)[1][2]).ok
    /\ sys.kind \in {"net", "block"}

\* C9: a successful connect() of an I2C builder without a device node and
\* with n clients adds exactly n + 1 channels, driver-virt and then
\* client-virt for each client; in a fresh system with the one client c1 the
\* connect succeeds and the rendered artifact holds exactly those two.
C9_I2cChannels ==
    (/\ Did("connect") /\ ~last.before.connected
     /\ sys.kind = "i2c" /\ sys.device = None)
    => /\ last.value = "True" =>
            LET new == PairsAfter(channels, Len(last.before.channels))
            IN /\ Len(new) = Len(sys.clients) + 1
               /\ new[1] = {"driver", "virt"}
               /\ \A i \in DOMAIN sys.clients :
                    new[i + 1] = {sys.clients[i].client, "virt"}
               /\ regions = last.before.regions
       /\ (/\ earlier = [pd \in PDs |-> 0]
           /\ last.before.channels = << >>
           /\ Len(sys.clients) = 1 /\ sys.clients[1].client = "c1")
          => /\ last.value = "True"
             /\ xml_result.channels = <<<<"driver", "virt">>, <<"c1", "virt">>>>

\* The scenario: driver, virt and the client c1, no device, connected.
C9_Witness ==
    /\ Did("connect") /\ last.value = "True"
    /\ sys.kind = "i2c" /\ sys.device = None
    /\ Len(sys.clients) = 1 /\ sys.clients[1].client = "c1"
    /\ Len(channels) = 2

\* C10: an add_client or add_client_with_copier call on a Connected builder
\* is rejected, the caller is told so (the call raises), and the client set
\* and the SystemDescription stay as they were.
C10_MutationAfterConnectReported ==
    (Did("add_client") \/ Did("add_client_with_copier"))
        /\ last.before.connected
    => /\ last.outcome = "raise"
       /\ sys.clients = last.before.clients
       /\ TopologyUnchanged

\* The errors add_client_with_copier raises for a duplicate.
DuplicateErrors ==
    {"duplicate MAC address", "duplicate client", "duplicate copier"}

\* C11: add_client_with_copier on an unconnected Network builder accepts a
\* supplied MAC address only when it is well-formed (17 characters, six
\* two-digit hexadecimal groups separated by colons); any other supplied text
\* makes the call raise an error of its own, not one of the duplicate errors,
\* and leaves the client set as it was. A call without a MAC address is
\* never rejected for its MAC address: it is added unless the client or the
\* copier is a duplicate.
C11_MalformedMacRejected ==
    (Did("add_client_with_copier") /\ ~last.before.connected)
    => LET client == last.args[1]
           copier == last.args[2]
           mac == last.args[3]
           b == [sys EXCEPT !.clients = last.before.clients]
           added == /\ last.outcome = "return"
                    /\ sys.clients =
                         Append(last.before.clients,
                                ClientEntry(client, copier, mac))
       IN /\ (mac # None /\ ~WellFormedMac(mac))
               => /\ last.outcome = "raise"
                  /\ last.value \notin DuplicateErrors
                  /\ sys.clients = last.before.clients
          /\ added => (mac = None \/ WellFormedMac(mac))
          /\ (mac = None /\ client \notin ClientsOf(b)
                         /\ copier \notin CopiersOf(b)) => added

(***************************************************************************)
(* Claim on handle lifetime (checked under SpecLife)                       *)
(***************************************************************************)

\* C7: every native handle is destroyed at most once, and no call uses a
\* handle after it was destroyed: a registered ProtectionDomain is alive
\* whenever its SystemDescription is rendered or connected, and the
\* DeviceTree is alive whenever a Node obtained from it is used.
C7_HandlesSafe ==
    /\ \A o \in Objs : destroys[o] <= 1
    /\ life_last.dangling = {}

(***************************************************************************)
(* Claim on ProtectionDomain construction (checked under SpecPd)           *)
(***************************************************************************)

ByteFields == {"priority", "budget", "period"}

\* C12: constructing a ProtectionDomain raises no error whatever the values;
\* a priority, budget or period given as v is recorded as the byte congruent
\* to v modulo 256, a stack_size as its low 32 bits; the recorded value is
\* the supplied one exactly when that lies in 0..255 (0..2^32-1 for
\* stack_size); a parameter given as 0 is recorded as 0, and one given as
\* None is left unset.
C12_ParametersWrap ==
    pd_obj.created =>
      /\ pd_last.outcome = "return"
      /\ \A f \in ByteFields :
           LET arg == pd_last.args[f]
               rec == pd_obj[f]
           IN IF arg = << >> THEN rec = << >>
              ELSE /\ Len(rec) = 1
                   /\ rec[1] \in 0..255
                   /\ \E k \in -2..2 : arg[1] = rec[1] + 256 * k
                   /\ (rec[1] = arg[1]) <=> (arg[1] \in 0..255)
                   /\ arg[1] = 0 => rec = <<0>>
      /\ LET arg == pd_last.args.stack_size
             rec == pd_obj.stack_size
         IN IF arg = << >> THEN rec = << >>
            ELSE /\ Len(rec) = 1
                 /\ rec[1][1] = arg[1][1] /\ rec[1][2] = arg[1][2]
                 /\ rec[1][3] = 0
                 /\ (rec[1] = arg[1]) <=> (arg[1][3] = 0)

\* A domain built with priority 256 (recorded as 0), budget 0 (recorded as
\* 0), no period, and a stack size of 2^32 + 4096 (recorded as 4096).
C12_Witness ==
    /\ pd_obj.created
    /\ pd_last.args.priority = <<256>> /\ pd_obj.priority = <<0>>
    /\ pd_last.args.budget = <<0>> /\ pd_obj.budget = <<0>>
    /\ pd_last.args.period = << >> /\ pd_obj.period = << >>
    /\ pd_last.args.stack_size = <<<<4096, 0, 1>>>>
    /\ pd_obj.stack_size = <<<<4096, 0, 0>>>>

=============================================================================
